---- MODULE Spec2Model ----
(***************************************************************************)
(* Model of the reconciliation core of defi-compare                        *)
(* (scripts/generate_comparison.js, latest revision: src/unnamed/part_003).*)
(*                                                                         *)
(* Raw provider payloads are JSON documents.  A JSON/JavaScript value is   *)
(* modelled as a tagged record [k |-> kind, ...]; property reads, the      *)
(* truthiness test of `||` and `if`, String.prototype.trim and the         *)
(* TypeError raised by reading a property of undefined/null are modelled   *)
(* by the operators of the first section.  Money amounts are integers.     *)
(***************************************************************************)
EXTENDS Integers, Sequences, FiniteSets, TLC

(***************************************************************************)
(* JavaScript values                                                       *)
(***************************************************************************)
Undefined == [k |-> "undefined"]
Null == [k |-> "null"]
NaN == [k |-> "nan"]
Num(n) == [k |-> "num", v |-> n]
\* a string: `lead` and `trail` count the white space around the core text v
Padded(l, s, t) == [k |-> "str", v |-> s, lead |-> l, trail |-> t]
Str(s) == Padded(0, s, 0)
Arr(a) == [k |-> "arr", v |-> a]
Obj(o) == [k |-> "obj", v |-> o]
EmptyObj == Obj(<<>>)

\* ToBoolean, as used by `||` and `if (...)`
Truthy(x) ==
  CASE x.k \in {"undefined", "null", "nan"} -> FALSE
    [] x.k = "num" -> x.v # 0
    [] x.k = "str" -> ~(x.v = "" /\ x.lead = 0 /\ x.trail = 0)
    [] OTHER -> TRUE

\* reading x.f raises a TypeError exactly when x is undefined or null
CanRead(x) == x.k \notin {"undefined", "null"}

\* x.f for a value x that can be read; no field of the payloads is inherited
Get(x, f) == IF x.k = "obj" /\ f \in DOMAIN x.v THEN x.v[f] ELSE Undefined

\* x?.f
OptGet(x, f) == IF CanRead(x) THEN Get(x, f) ELSE Undefined

\* a || b
OrElse(a, b) == IF Truthy(a) THEN a ELSE b

IsArray(x) == x.k = "arr"

\* s.trim() exists only on strings; calling it on anything else is a TypeError
CanTrim(s) == s.k = "str"
Trim(s) == [s EXCEPT !.lead = 0, !.trail = 0]

\* a * b on numbers; any operand that is not a number here gives NaN
Mul(a, b) == IF a.k = "num" /\ b.k = "num" THEN Num(a.v * b.v) ELSE NaN

\* the integer of a numeric value (0 for the falsy fallbacks of `x || 0`)
NumOr0(x) == IF Truthy(x) /\ x.k = "num" THEN x.v ELSE 0

(***************************************************************************)
(* Sums over the snapshot (used by the properties)                         *)
(***************************************************************************)
RECURSIVE SumSeq(_)
SumSeq(s) == IF s = <<>> THEN 0 ELSE Head(s) + SumSeq(Tail(s))

RECURSIVE SumSet(_, _)
SumSet(f, S) ==
  IF S = {} THEN 0
  ELSE LET x == CHOOSE y \in S : TRUE IN f[x] + SumSet(f, S \ {x})

AssetValues(assets) == [i \in 1..Len(assets) |-> assets[i].value.v]
SumAssets(assets) == SumSeq(AssetValues(assets))
SumProtocols(protocols) ==
  SumSet([n \in DOMAIN protocols |-> protocols[n].value], DOMAIN protocols)

(***************************************************************************)
(* normalizeDeBank                                                         *)
(***************************************************************************)
EmptySnapshot == [protocols |-> <<>>, totalValue |-> 0]

\* token.symbol.trim() raises when the token or its symbol is not usable
TokenThrows(token) == ~CanRead(token) \/ ~CanTrim(Get(token, "symbol"))

SupplyAsset(token) ==
  [symbol |-> Trim(Get(token, "symbol")),
   amount |-> Get(token, "amount"),
   price  |-> Get(token, "price"),
   value  |-> Mul(Get(token, "amount"), Get(token, "price")),
   type   |-> "supply"]

BorrowAsset(token) ==
  [symbol |-> Trim(Get(token, "symbol")),
   amount |-> Get(token, "amount"),
   price  |-> Get(token, "price"),
   value  |-> Mul(Mul(Get(token, "amount"), Get(token, "price")), Num(-1)),
   type   |-> "borrow"]

RewardAsset(token) ==
  [symbol |-> Trim(Get(token, "symbol")),
   amount |-> Get(token, "amount"),
   price  |-> Get(token, "price"),
   value  |-> Mul(Get(token, "amount"), Get(token, "price")),
   type   |-> "reward"]

VestingAsset(token) ==
  [symbol |-> Trim(Get(token, "symbol")),
   amount |-> Get(token, "amount"),
   price  |-> Get(token, "price"),
   value  |-> Mul(Get(token, "amount"), Get(token, "price")),
   type   |-> "vesting"]

\* item.detail && item.detail.<list>
DetailField(item, f) ==
  IF Truthy(Get(item, "detail")) THEN Get(Get(item, "detail"), f) ELSE Undefined

\* list.forEach(token => ... token.symbol.trim() ...) raises
TokenListThrows(list) ==
  Truthy(list) /\ (~IsArray(list) \/ \E i \in 1..Len(list.v) : TokenThrows(list.v[i]))

SupplyAssets(item) ==
  LET l == DetailField(item, "supply_token_list")
  IN IF Truthy(l) THEN [i \in 1..Len(l.v) |-> SupplyAsset(l.v[i])] ELSE <<>>

BorrowAssets(item) ==
  LET l == DetailField(item, "borrow_token_list")
  IN IF Truthy(l) THEN [i \in 1..Len(l.v) |-> BorrowAsset(l.v[i])] ELSE <<>>

RewardAssets(item) ==
  LET l == DetailField(item, "reward_token_list")
  IN IF Truthy(l) THEN [i \in 1..Len(l.v) |-> RewardAsset(l.v[i])] ELSE <<>>

VestingAssets(item) ==
  LET t == DetailField(item, "token")
  IN IF Truthy(t) THEN <<VestingAsset(t)>> ELSE <<>>

\* the body of the portfolio_item_list loop raises a TypeError
ItemThrows(item) ==
  \/ ~CanRead(item)
  \/ ~CanRead(Get(item, "stats"))
  \/ TokenListThrows(DetailField(item, "supply_token_list"))
  \/ TokenListThrows(DetailField(item, "borrow_token_list"))
  \/ TokenListThrows(DetailField(item, "reward_token_list"))
  \/ (Truthy(DetailField(item, "token")) /\ TokenThrows(DetailField(item, "token")))

ItemNet(item) == NumOr0(Get(Get(item, "stats"), "net_usd_value"))

\* variant: the debts are pushed before the supplied tokens
ItemAssetsBorrowFirst(item) ==
  BorrowAssets(item) \o SupplyAssets(item) \o RewardAssets(item) \o VestingAssets(item)

ItemAssets(item) ==
  SupplyAssets(item) \o BorrowAssets(item) \o RewardAssets(item) \o VestingAssets(item)

\* variant: the bucket value is recomputed from the tokens of the item
DeBankItemFromTokens(snap, protoName, item) ==
  [protocols |->
     [snap.protocols EXCEPT
        ![protoName].value = @ + SumAssets(ItemAssets(item)),
        ![protoName].assets = @ \o ItemAssets(item)],
   totalValue |-> snap.totalValue + ItemNet(item)]

\* variant: `totalValue = val` in place of `totalValue += val`
DeBankItemAssignTotal(snap, protoName, item) ==
  [protocols |->
     [snap.protocols EXCEPT
        ![protoName].value = @ + ItemNet(item),
        ![protoName].assets = @ \o ItemAssets(item)],
   totalValue |-> ItemNet(item)]

\* one iteration of proto.portfolio_item_list.forEach on bucket protoName
DeBankItem(snap, protoName, item) ==
  [protocols |->
     [snap.protocols EXCEPT
        ![protoName].value = @ + ItemNet(item),
        ![protoName].assets = @ \o ItemAssets(item)],
   totalValue |-> snap.totalValue + ItemNet(item)]

\* proto.name || 'Unknown'
DeBankProtoName(proto) == OrElse(Get(proto, "name"), Str("Unknown")).v

\* the head of the chainData loop: look the bucket up, create it when absent
DeBankBucket(snap, proto) ==
  LET protoName == DeBankProtoName(proto)
  IN IF protoName \in DOMAIN snap.protocols THEN snap
     ELSE [snap EXCEPT !.protocols =
             [n \in DOMAIN snap.protocols \cup {protoName} |->
                IF n = protoName
                THEN [name |-> protoName, id |-> Get(proto, "id"),
                      value |-> 0, assets |-> <<>>]
                ELSE snap.protocols[n]]]

\* reading proto.name or calling proto.portfolio_item_list.forEach raises
ProtoThrows(proto) == ~CanRead(proto) \/ ~IsArray(Get(proto, "portfolio_item_list"))


PortfolioItems(proto) == Get(proto, "portfolio_item_list").v

\* the result of a call: the snapshot returned, or threw = TRUE when the call
\* ended in an uncaught TypeError
Returned(snap) == [threw |-> FALSE, snap |-> snap]
Thrown == [threw |-> TRUE, snap |-> EmptySnapshot]

RECURSIVE DeBankItems(_, _, _, _)
DeBankItems(snap, protoName, items, i) ==
  IF i > Len(items) THEN Returned(snap)
  ELSE IF ItemThrows(items[i]) THEN Thrown
  ELSE DeBankItems(DeBankItem(snap, protoName, items[i]), protoName, items, i + 1)

RECURSIVE DeBankProtos(_, _, _)
DeBankProtos(snap, protos, p) ==
  IF p > Len(protos) THEN Returned(snap)
  ELSE IF ProtoThrows(protos[p]) THEN Thrown
  ELSE LET r == DeBankItems(DeBankBucket(snap, protos[p]),
                            DeBankProtoName(protos[p]),
                            PortfolioItems(protos[p]), 1)
       IN IF r.threw THEN Thrown ELSE DeBankProtos(r.snap, protos, p + 1)

normalizeDeBank(chainData) ==
  IF ~IsArray(chainData) THEN Returned(EmptySnapshot)
  ELSE DeBankProtos(EmptySnapshot, chainData.v, 1)

(***************************************************************************)
(* normalizeZerion                                                         *)
(***************************************************************************)
\* Protocol Name Mapping (Zerion -> DeBank), per canonical chain key
PROTOCOL_NAME_MAP ==
  [c \in {"binance-smart-chain", "ethereum", "optimism"} |->
     CASE c = "binance-smart-chain" -> ("Helio" :> "Lista DAO")
       [] c = "ethereum" ->
            ("Morpho Blue" :> "Morpho") @@ ("Tokemak" :> "AUTO Finance")
            @@ ("Spool" :> "Yelay") @@ ("Euler v2" :> "Euler")
            @@ ("Compound V2" :> "Compound") @@ ("MakerDAO" :> "Maker")
            @@ ("ParaSwap" :> "Velora")
       [] c = "optimism" ->
            ("Velodrome" :> "Velodrome V2") @@ ("Velodrome V2" :> "Velodrome")]

\* variant: the lookup is applied again to the name it returned
ResolveAliasTwice(chainId, protoName) ==
  LET table == IF Truthy(chainId) /\ chainId.k = "str"
                  /\ chainId.v \in DOMAIN PROTOCOL_NAME_MAP
               THEN PROTOCOL_NAME_MAP[chainId.v] ELSE <<>>
      once(n) == IF n \in DOMAIN table THEN table[n] ELSE n
  IN once(once(protoName))

\* variant: the alias is looked up in the tables of all chains
ResolveAliasAnyChain(chainId, protoName) ==
  IF \E c \in DOMAIN PROTOCOL_NAME_MAP : protoName \in DOMAIN PROTOCOL_NAME_MAP[c]
  THEN LET c == CHOOSE c \in DOMAIN PROTOCOL_NAME_MAP :
                  protoName \in DOMAIN PROTOCOL_NAME_MAP[c]
       IN PROTOCOL_NAME_MAP[c][protoName]
  ELSE protoName

\* chainId && PROTOCOL_NAME_MAP[chainId] && PROTOCOL_NAME_MAP[chainId][protoName]
ResolveAlias(chainId, protoName) ==
  IF /\ Truthy(chainId)
     /\ chainId.v \in DOMAIN PROTOCOL_NAME_MAP
     /\ protoName \in DOMAIN PROTOCOL_NAME_MAP[chainId.v]
  THEN PROTOCOL_NAME_MAP[chainId.v][protoName]
  ELSE protoName

\* chainDataRaw.data raises when chainDataRaw is null or undefined
ZerionRawThrows(raw) == ~CanRead(raw)

\* the `data` wrapper or the direct array; anything else gives no items
ZerionItems(raw) ==
  IF Truthy(Get(raw, "data")) /\ IsArray(Get(raw, "data")) THEN Get(raw, "data").v
  ELSE IF IsArray(raw) THEN raw.v
  ELSE <<>>

\* if (!attrs) return; if (!attrs.protocol) return;
PosSkipped(pos) ==
  \/ ~Truthy(Get(pos, "attributes"))
  \/ ~Truthy(Get(Get(pos, "attributes"), "protocol"))

\* attrs.fungible_info?.symbol || '?'
ZerionSymbol(attrs) == OrElse(OptGet(Get(attrs, "fungible_info"), "symbol"), Str("?"))

\* pos.attributes on a null element, or symbol.trim() on a non-string, raises
PosThrows(pos) ==
  \/ ~CanRead(pos)
  \/ (~PosSkipped(pos) /\ ~CanTrim(ZerionSymbol(Get(pos, "attributes"))))

\* attrs.value || 0
ZerionVal(attrs) == NumOr0(Get(attrs, "value"))

\* variant: only 'staked' is coalesced, 'locked' passes through
ZerionTypeStakedOnly(attrs) ==
  LET type == Get(attrs, "position_type")
  IN IF type = Str("staked") THEN Str("supply") ELSE type

\* 'locked' and 'staked' become 'supply'
ZerionType(attrs) ==
  LET type == Get(attrs, "position_type")
  IN IF type = Str("locked") \/ type = Str("staked") THEN Str("supply") ELSE type

\* variant: the asset value is recomputed as quantity * price
ZerionAssetFromPrice(attrs) ==
  [symbol |-> Trim(ZerionSymbol(attrs)),
   amount |-> OrElse(OptGet(Get(attrs, "quantity"), "float"), Num(0)),
   price  |-> OrElse(Get(attrs, "price"), Num(0)),
   value  |-> Mul(OrElse(OptGet(Get(attrs, "quantity"), "float"), Num(0)),
                  OrElse(Get(attrs, "price"), Num(0))),
   type   |-> ZerionType(attrs),
   flags  |-> OptGet(Get(attrs, "fungible_info"), "flags")]

ZerionAsset(attrs) ==
  [symbol |-> Trim(ZerionSymbol(attrs)),
   amount |-> OrElse(OptGet(Get(attrs, "quantity"), "float"), Num(0)),
   price  |-> OrElse(Get(attrs, "price"), Num(0)),
   value  |-> Num(ZerionVal(attrs)),
   type   |-> ZerionType(attrs),
   flags  |-> OptGet(Get(attrs, "fungible_info"), "flags")]

\* variant: the bucket is assigned on every position, not only when absent
ZerionBucketOverwrite(snap, protoName) ==
  [snap EXCEPT !.protocols =
     [n \in DOMAIN snap.protocols \cup {protoName} |->
        IF n = protoName
        THEN [name |-> protoName, id |-> Str(protoName), value |-> 0, assets |-> <<>>]
        ELSE snap.protocols[n]]]

\* if (!protocols[protoName]) protocols[protoName] = {...}
ZerionBucket(snap, protoName) ==
  IF protoName \in DOMAIN snap.protocols THEN snap
  ELSE [snap EXCEPT !.protocols =
          [n \in DOMAIN snap.protocols \cup {protoName} |->
             IF n = protoName
             THEN [name |-> protoName, id |-> Str(protoName), value |-> 0, assets |-> <<>>]
             ELSE snap.protocols[n]]]

\* the rest of the loop body: add the value and push the asset
ZerionAdd(snap, protoName, attrs) ==
  [protocols |->
     [snap.protocols EXCEPT
        ![protoName].value = @ + ZerionVal(attrs),
        ![protoName].assets = Append(@, ZerionAsset(attrs))],
   totalValue |-> snap.totalValue + ZerionVal(attrs)]

\* variant: a position without protocol is grouped under "Wallet"
ZerionPositionWallet(snap, chainId, pos) ==
  IF ~Truthy(Get(pos, "attributes")) THEN snap
  ELSE LET attrs == Get(pos, "attributes")
           protoName == IF Truthy(Get(attrs, "protocol"))
                        THEN ResolveAlias(chainId, Get(attrs, "protocol").v)
                        ELSE "Wallet"
       IN ZerionAdd(ZerionBucket(snap, protoName), protoName, attrs)

\* one iteration of items.forEach, for a position that does not raise
ZerionPosition(snap, chainId, pos) ==
  IF PosSkipped(pos) THEN snap
  ELSE LET attrs == Get(pos, "attributes")
           protoName == ResolveAlias(chainId, Get(attrs, "protocol").v)
       IN ZerionAdd(ZerionBucket(snap, protoName), protoName, attrs)

RECURSIVE ZerionPositions(_, _, _, _)
ZerionPositions(snap, chainId, items, i) ==
  IF i > Len(items) THEN Returned(snap)
  ELSE IF PosThrows(items[i]) THEN Thrown
  ELSE ZerionPositions(ZerionPosition(snap, chainId, items[i]), chainId, items, i + 1)

normalizeZerion(chainDataRaw, chainId) ==
  IF ZerionRawThrows(chainDataRaw) THEN Thrown
  ELSE ZerionPositions(EmptySnapshot, chainId, ZerionItems(chainDataRaw), 1)

(***************************************************************************)
(* The assembler: tables, file access                                      *)
(***************************************************************************)
\* Chain Mapping: DeBank -> Zerion, in the order of Object.keys(CHAIN_MAP)
ChainOrder ==
  <<"eth", "bsc", "matic", "ftm", "avax", "op", "arb", "base", "linea", "era", "scrl">>

CHAIN_MAP ==
  [c \in {ChainOrder[i] : i \in 1..Len(ChainOrder)} |->
     CASE c = "eth" -> "ethereum"
       [] c = "bsc" -> "binance-smart-chain"
       [] c = "matic" -> "polygon"
       [] c = "ftm" -> "fantom"
       [] c = "avax" -> "avalanche"
       [] c = "op" -> "optimism"
       [] c = "arb" -> "arbitrum"
       [] c = "base" -> "base"
       [] c = "linea" -> "linea"
       [] c = "era" -> "zksync-era"
       [] c = "scrl" -> "scroll"]

\* a directory name: its lower-cased text, and whether the stored spelling
\* has upper-case letters
Addr(lc, caps) == [lc |-> lc, caps |-> caps]
toLowerCase(a) == [a EXCEPT !.caps = FALSE]

TargetAddressList ==
  <<Addr("0x9d17bb55b57b31329cf01aa7017948e398b277bc", FALSE),
    Addr("0x5c9e30def85334e587cf36eb07bdd6a72bf1452d", FALSE),
    Addr("0xd92293daca6bbed57f8cb6d498b48ea93e035e99", FALSE),
    Addr("0x15b325660a1c4a9582a7d834c31119c0cb9e3a42", TRUE),
    Addr("0x47441bd9fb3441370cb5b6c4684a0104353aec66", FALSE),
    Addr("0x011b0a055e02425461a1ae95b30f483c4ff05be7", FALSE),
    Addr("0x0b32aa5c1e71715206fe29b7badb21ad95f272c0", FALSE),
    Addr("0x87f16c31e32ae543278f5194cf94862f1cb1eee0", FALSE),
    Addr("0xbbbc35dfac3a00a03a8fde3540eca4f0e15c5e64", FALSE),
    Addr("0x4e5ed30e3b4eb39abce3c150f31e180a3ae5806e", FALSE),
    Addr("0x84a6a7c0674a3aa03e09c026600cb46181821f07", FALSE),
    Addr("0x5c051c0ff69b6f5fdd47e847eb370dd48726ec4d", FALSE),
    Addr("0x7bfee91193d9df2ac0bfe90191d40f23c773c060", FALSE),
    Addr("0xde6b2a06407575b98724818445178c1f5fd53361", FALSE),
    Addr("0xbdfa4f4492dd7b7cf211209c4791af8d52bf5c50", FALSE),
    Addr("0x33eecc48943aaeabb5328a25ff28eb85f67945c2", FALSE),
    Addr("0x3e8734ec146c981e3ed1f6b582d447dde701d90c", FALSE)>>

\* [...].map(addr => addr.toLowerCase())
TARGET_ADDRESSES ==
  [i \in 1..Len(TargetAddressList) |-> toLowerCase(TargetAddressList[i])]

\* targets.includes(addr.toLowerCase())
IncludesLowerCase(targets, addr) ==
  \E i \in 1..Len(targets) : targets[i] = toLowerCase(addr)

\* TARGET_ADDRESSES.includes(addr.toLowerCase())
IsTarget(addr) == IncludesLowerCase(TARGET_ADDRESSES, addr)

\* the entries of a data root that are directories
getDirectories(root) == {n \in DOMAIN root : root[n] = "dir"}

\* variant: the directory name is compared as stored, without toLowerCase
FilterAddressesAsStored(targets, addresses) ==
  IF Len(targets) > 0
  THEN {a \in addresses : \E i \in 1..Len(targets) : targets[i] = a}
  ELSE addresses

\* if (targets.length > 0) addresses = addresses.filter(...)
FilterAddresses(targets, addresses) ==
  IF Len(targets) > 0
  THEN {a \in addresses : IncludesLowerCase(targets, a)}
  ELSE addresses

\* the directories of DATA_DIR_DEBANK, filtered by the allow-list when it is
\* not empty
MainAddresses(root) == FilterAddresses(TARGET_ADDRESSES, getDirectories(root))

\* a file: <<data root, address directory, file name without .json>>
DebankFile(address, debankChainId) == <<"data", address, debankChainId>>
ZerionFile(address, zerionChainId) == <<"data_zerion", address, zerionChainId>>

\* a file content that JSON.parse rejects
Garbage == [k |-> "garbage"]

existsSync(files, f) == f \in DOMAIN files

\* null when the file is missing or does not parse
readJson(files, f) ==
  IF ~existsSync(files, f) THEN Null
  ELSE IF files[f] = Garbage THEN Null
  ELSE files[f]

\* the body of the chain loop for one (address, chain) pair: skipped when
\* neither file exists, else both normalizers run on readJson(file) || []
\* variant: the pair is skipped unless both files exist
PairSkippedEither(files, address, debankChainId) ==
  \/ ~existsSync(files, DebankFile(address, debankChainId))
  \/ ~existsSync(files, ZerionFile(address, CHAIN_MAP[debankChainId]))

PairSkipped(files, address, debankChainId) ==
  /\ ~existsSync(files, DebankFile(address, debankChainId))
  /\ ~existsSync(files, ZerionFile(address, CHAIN_MAP[debankChainId]))

PairDebank(files, address, debankChainId) ==
  normalizeDeBank(OrElse(readJson(files, DebankFile(address, debankChainId)), Arr(<<>>)))

PairZerion(files, address, debankChainId) ==
  normalizeZerion(
    OrElse(readJson(files, ZerionFile(address, CHAIN_MAP[debankChainId])), Arr(<<>>)),
    Str(CHAIN_MAP[debankChainId]))

PairThrows(files, address, debankChainId) ==
  /\ ~PairSkipped(files, address, debankChainId)
  /\ \/ PairDebank(files, address, debankChainId).threw
     \/ PairZerion(files, address, debankChainId).threw

PairRecord(files, address, debankChainId) ==
  [debank |-> PairDebank(files, address, debankChainId).snap,
   zerion |-> PairZerion(files, address, debankChainId).snap]

\* variant: the entry is stored for every chain, skipped or not
ResultAfterPairAlways(result, files, address, c) ==
  LET debankChainId == ChainOrder[c]
      start == IF c = 1
               THEN [a \in DOMAIN result \cup {address} |->
                       IF a = address THEN <<>> ELSE result[a]]
               ELSE result
  IN [start EXCEPT ![address] =
        [k \in DOMAIN start[address] \cup {CHAIN_MAP[debankChainId]} |->
           IF k = CHAIN_MAP[debankChainId]
           THEN PairRecord(files, address, debankChainId)
           ELSE start[address][k]]]

\* variant: result[address] = {} is executed for every chain
ResultAfterPairReset(result, files, address, c) ==
  LET debankChainId == ChainOrder[c]
      start == [a \in DOMAIN result \cup {address} |->
                  IF a = address THEN <<>> ELSE result[a]]
  IN IF PairSkipped(files, address, debankChainId) THEN start
     ELSE [start EXCEPT ![address] =
             [k \in {CHAIN_MAP[debankChainId]} |->
                PairRecord(files, address, debankChainId)]]

\* result after the pair: result[address] = {} at the first chain of an
\* address, then result[address][zerionChainId] = {...} unless skipped
ResultAfterPair(result, files, address, c) ==
  LET debankChainId == ChainOrder[c]
      start == IF c = 1
               THEN [a \in DOMAIN result \cup {address} |->
                       IF a = address THEN <<>> ELSE result[a]]
               ELSE result
  IN IF PairSkipped(files, address, debankChainId) THEN start
     ELSE [start EXCEPT ![address] =
             [k \in DOMAIN start[address] \cup {CHAIN_MAP[debankChainId]} |->
                IF k = CHAIN_MAP[debankChainId]
                THEN PairRecord(files, address, debankChainId)
                ELSE start[address][k]]]

(***************************************************************************)
(* Bounds and the provider-A payloads explored                             *)
(***************************************************************************)
\* protocol records in one provider-A payload
MaxProtos == 2
\* portfolio items in one provider-A payload, over all its records
MaxItems == 2

Tok(sym, a, p) == Obj([symbol |-> sym, amount |-> Num(a), price |-> Num(p)])
USDC == Padded(1, "USDC", 1)
WETH == Padded(1, "WETH", 0)
DAI == Str("DAI")
CRV == Str("CRV")

Stats(n) == Obj([net_usd_value |-> Num(n)])

DeBankItemSet ==
  { \* net value equal to / different from the value of the tokens
    Obj([stats |-> Stats(6),
         detail |-> Obj([supply_token_list |-> Arr(<<Tok(USDC, 2, 3)>>)])]),
    Obj([stats |-> Stats(7),
         detail |-> Obj([supply_token_list |-> Arr(<<Tok(USDC, 2, 3)>>)])]),
    \* debts: positive raw amounts and prices, zero amount, zero price
    Obj([stats |-> Stats(-4),
         detail |-> Obj([borrow_token_list |->
                           Arr(<<Tok(DAI, 2, 2), Tok(DAI, 0, 2), Tok(DAI, 2, 0)>>)])]),
    \* debts reported with a negative raw amount or price
    Obj([stats |-> Stats(-4),
         detail |-> Obj([borrow_token_list |-> Arr(<<Tok(DAI, -2, 2)>>)])]),
    Obj([stats |-> Stats(0),
         detail |-> Obj([borrow_token_list |->
                           Arr(<<Tok(DAI, 2, -1), Tok(DAI, -2, -1)>>)])]),
    \* every token list at once
    Obj([stats |-> Stats(12),
         detail |-> Obj([supply_token_list |-> Arr(<<Tok(USDC, 2, 3), Tok(WETH, 1, 5)>>),
                         borrow_token_list |-> Arr(<<Tok(DAI, 2, 1)>>),
                         reward_token_list |-> Arr(<<Tok(CRV, 1, 1)>>),
                         token |-> Tok(CRV, 1, 2)])]),
    \* stats without a net value, vesting only, no detail
    Obj([stats |-> EmptyObj,
         detail |-> Obj([reward_token_list |-> Arr(<<Tok(CRV, 3, 1)>>)])]),
    Obj([stats |-> Stats(2), detail |-> Obj([token |-> Tok(CRV, 2, 1)])]),
    Obj([stats |-> Stats(5)]),
    \* partial records: no stats, a token without symbol
    Obj([detail |-> Obj([supply_token_list |-> Arr(<<Tok(USDC, 2, 3)>>)])]),
    Obj([stats |-> Stats(1),
         detail |-> Obj([supply_token_list |->
                           Arr(<<Obj([amount |-> Num(1), price |-> Num(1)])>>)])]) }

DeBankItemLists(n) == UNION {[1..m -> DeBankItemSet] : m \in 0..n}

\* protocol records holding at most n portfolio items
DeBankProtoSet(n) ==
  {Obj([name |-> Str("Aave V3"), id |-> Str("aave3"), portfolio_item_list |-> Arr(l)]) :
     l \in DeBankItemLists(n)}
  \cup {Obj([name |-> Str("Morpho"), id |-> Str("morpho"), portfolio_item_list |-> Arr(l)]) :
     l \in DeBankItemLists(n)}
  \cup {Obj([id |-> Str("anon"), portfolio_item_list |-> Arr(l)]) : l \in DeBankItemLists(n)}
  \cup {Obj([name |-> Str("Aave V3"), id |-> Str("aave3")])}

\* top-level payloads that are not a list of protocol records
NonArrayInputs == {Null, EmptyObj, Num(5), Str("oops")}

(***************************************************************************)
(* The provider-B payloads explored                                        *)
(***************************************************************************)
\* positions in one provider-B payload
MaxPositions == 3

Fungible(sym) == Obj([symbol |-> sym, flags |-> Obj([verified |-> Num(1)])])

Pos(attrs) == Obj([type |-> Str("positions"), attributes |-> Obj(attrs)])

ZerionPosSet ==
  { Pos([protocol |-> Str("Morpho Blue"), value |-> Num(5),
         position_type |-> Str("deposited"), fungible_info |-> Fungible(USDC),
         quantity |-> Obj([float |-> Num(5)]), price |-> Num(1)]),
    Pos([protocol |-> Str("Morpho"), value |-> Num(3),
         position_type |-> Str("staked"), fungible_info |-> Fungible(WETH),
         quantity |-> Obj([float |-> Num(1)]), price |-> Num(2)]),
    Pos([protocol |-> Str("Helio"), value |-> Num(4),
         position_type |-> Str("locked"), fungible_info |-> Fungible(DAI),
         quantity |-> Obj([float |-> Num(4)]), price |-> Num(1)]),
    Pos([protocol |-> Str("Lista DAO"), value |-> Num(1),
         position_type |-> Str("reward"), fungible_info |-> Fungible(CRV),
         quantity |-> Obj([float |-> Num(1)]), price |-> Num(1)]),
    Pos([protocol |-> Str("Velodrome"), value |-> Num(-2),
         position_type |-> Str("borrowed"), fungible_info |-> Fungible(DAI),
         quantity |-> Obj([float |-> Num(2)]), price |-> Num(1)]),
    \* only the protocol and a value: no type, descriptor, quantity or price
    Pos([protocol |-> Str("Velodrome V2"), value |-> Num(6)]),
    \* no value
    Pos([protocol |-> Str("Morpho"), position_type |-> Str("deposited"),
         fungible_info |-> Fungible(USDC)]),
    \* plain wallet balances: protocol null, protocol absent, no attributes
    Pos([protocol |-> Null, value |-> Num(50),
         position_type |-> Str("wallet"), fungible_info |-> Fungible(USDC),
         quantity |-> Obj([float |-> Num(50)]), price |-> Num(1)]),
    Pos([value |-> Num(7), position_type |-> Str("wallet")]),
    Obj([type |-> Str("positions")]),
    \* partial records: a null list element, a symbol that is not a string
    Null,
    Pos([protocol |-> Str("Morpho"), value |-> Num(2),
         fungible_info |-> Obj([symbol |-> Num(5)])]) }

\* top-level payloads: the empty list in both accepted shapes, then others
ZerionListInputs == {Arr(<<>>), Obj([data |-> Arr(<<>>), meta |-> EmptyObj])}
ZerionOtherInputs == {Null, Undefined, EmptyObj, Num(5), Obj([data |-> Str("oops")])}

ZerionChainIds ==
  {Str("ethereum"), Str("binance-smart-chain"), Str("optimism"), Str("polygon"), Undefined}

(***************************************************************************)
(* The raw-data trees explored                                             *)
(***************************************************************************)
\* raw files present under the two data roots
MaxFiles == 2

\* on disk: an allow-listed address, an allow-listed address stored with
\* upper-case letters, an address outside the allow-list
DiskAddrs ==
  {Addr("0x9d17bb55b57b31329cf01aa7017948e398b277bc", FALSE),
   Addr("0x15b325660a1c4a9582a7d834c31119c0cb9e3a42", TRUE),
   Addr("0x0000000000000000000000000000000000000001", FALSE)}

\* a plain file of the provider-A root, which is not an address directory
StrayEntry == Addr(".gitkeep", FALSE)

DebankSlots == {DebankFile(a, c) : a \in DiskAddrs, c \in {"eth", "op", "xdai"}}
ZerionSlots == {ZerionFile(a, c) : a \in DiskAddrs, c \in {"ethereum", "optimism"}}

DebankContents ==
  { Arr(<<Obj([name |-> Str("Aave V3"), id |-> Str("aave3"),
               portfolio_item_list |->
                 Arr(<<Obj([stats |-> Stats(6),
                            detail |-> Obj([supply_token_list |->
                                              Arr(<<Tok(USDC, 2, 3)>>)])])>>)])>>),
    Arr(<<Obj([name |-> Str("Aave V3"), id |-> Str("aave3")])>>),
    Garbage }

ZerionContents ==
  { Obj([data |-> Arr(<<Pos([protocol |-> Str("Velodrome"), value |-> Num(6)]),
                        Pos([protocol |-> Null, value |-> Num(50)])>>),
         meta |-> EmptyObj]),
    Arr(<<Null>>),
    Garbage }

FileTrees ==
  UNION { {f \in [S -> DebankContents \cup ZerionContents] :
             \A x \in S : f[x] \in (IF x[1] = "data" THEN DebankContents
                                    ELSE ZerionContents)} :
          S \in {T \in SUBSET (DebankSlots \cup ZerionSlots) : Cardinality(T) <= MaxFiles} }

(***************************************************************************)
(* State                                                                   *)
(***************************************************************************)
VARIABLES
  dbInput,   \* normalizeDeBank: the argument chainData, as far as it was read
  dbIdx,     \* normalizeDeBank: index of the next item of the current record
  dbSnap,    \* normalizeDeBank: the locals protocols and totalValue
  dbPc,      \* normalizeDeBank: "idle", "loop", "done" (returned) or "threw"
  zRaw,      \* normalizeZerion: the argument chainDataRaw, as far as it was read
  zChain,    \* normalizeZerion: the argument chainId
  zSnap,     \* normalizeZerion: the locals protocols and totalValue
  zPc,       \* normalizeZerion: "idle", "start", "loop", "done" or "threw"
  fsRoot,    \* entries of DATA_DIR_DEBANK: name -> "dir" or "file"
  fsFiles,   \* the raw files of both data roots: file -> content
  outFile,   \* OUTPUT_FILE: <<>> while not written, else <<the dataset>>
  mAddrs,    \* main: the local addresses, in iteration order
  mA,        \* main: index of the current address
  mC,        \* main: index of the current chain in Object.keys(CHAIN_MAP)
  mResult,   \* main: the local result
  mPc,       \* main: "idle", "start", "loop", "done" or "threw"
  fScript,   \* fetchers: the script run, "debank" or "zerion" ("none" when idle)
  fAddr,     \* fetchers: main's index i + 1 into addresses
  fChains,   \* fetch_protocol: the chains of usedChains not fetched yet
  fRetries,  \* fetchers: the local retries of the call in progress
  fRequests, \* fetchers: requests issued by the call in progress
  fLast,     \* fetchers: kind of the last response of the call in progress
  fResult,   \* fetchers: value returned by the last call
  fFiles,    \* fetchers: the raw files written, <<data root, address, slug>>
  fPc,       \* fetchers: "idle", "address", "call", "returned", "done", "exit"
  rFn,       \* repeated call: the normalizer called, "debank" or "zerion"
  rInput,    \* repeated call: the raw input passed to every call
  rChain,    \* repeated call: the chain key passed to normalizeZerion
  rLocals,   \* repeated call: protocols and totalValue as the last call left them
  rResults   \* repeated call: the results of the calls made so far

dbVars == <<dbInput, dbIdx, dbSnap, dbPc>>
zVars == <<zRaw, zChain, zSnap, zPc>>
fsVars == <<fsRoot, fsFiles, outFile>>
mVars == <<mAddrs, mA, mC, mResult, mPc>>
fVars == <<fScript, fAddr, fChains, fRetries, fRequests, fLast, fResult, fFiles, fPc>>
rVars == <<rFn, rInput, rChain, rLocals, rResults>>
vars == <<dbVars, zVars, fsVars, mVars, fVars, rVars>>

\* the variables of the operations a specification does not run
otherThanDeBank == <<zVars, fsVars, mVars, fVars, rVars>>
otherThanZerion == <<dbVars, fsVars, mVars, fVars, rVars>>
otherThanMain == <<dbVars, zVars, fVars, rVars>>
otherThanFetch == <<dbVars, zVars, fsVars, mVars, rVars>>
otherThanRepeat == <<dbVars, zVars, fsVars, mVars, fVars>>

IdleDeBank ==
  dbInput = Undefined /\ dbIdx = 1 /\ dbSnap = EmptySnapshot /\ dbPc = "idle"

IdleZerion ==
  zRaw = Undefined /\ zChain = Undefined /\ zSnap = EmptySnapshot /\ zPc = "idle"

IdleMain ==
  /\ fsRoot = <<>> /\ fsFiles = <<>> /\ outFile = <<>>
  /\ mAddrs = <<>> /\ mA = 1 /\ mC = 1 /\ mResult = <<>> /\ mPc = "idle"

IdleFetch ==
  /\ fScript = "none" /\ fAddr = 1 /\ fChains = <<>> /\ fRetries = 0
  /\ fRequests = 0 /\ fLast = "none" /\ fResult = Undefined /\ fFiles = {}
  /\ fPc = "idle"

IdleRepeat ==
  /\ rFn = "none" /\ rInput = Undefined /\ rChain = Undefined
  /\ rLocals = EmptySnapshot /\ rResults = <<>>

(***************************************************************************)
(* normalizeDeBank, one loop iteration per step                            *)
(***************************************************************************)
\* the portfolio items read so far, in order, over all records
RECURSIVE ItemsRead(_, _)
ItemsRead(protos, idx) ==
  IF protos = <<>> THEN <<>>
  ELSE IF Len(protos) = 1 THEN SubSeq(PortfolioItems(protos[1]), 1, idx - 1)
  ELSE PortfolioItems(Head(protos)) \o ItemsRead(Tail(protos), idx)

DBItemsUsed == IF IsArray(dbInput) /\ dbPc # "threw" THEN Len(ItemsRead(dbInput.v, dbIdx)) ELSE 0

DBCurrentDone ==
  IF dbInput.v = <<>> THEN TRUE
  ELSE dbIdx > Len(PortfolioItems(dbInput.v[Len(dbInput.v)]))

InitDeBank ==
  /\ dbInput \in {Arr(<<>>)} \cup NonArrayInputs
  /\ dbIdx = 1
  /\ dbSnap = EmptySnapshot
  /\ dbPc = "loop"
  /\ IdleZerion
  /\ IdleMain
  /\ IdleFetch
  /\ IdleRepeat

\* if (!Array.isArray(chainData)) return { protocols, totalValue }
DBRejectNonArray ==
  /\ dbPc = "loop"
  /\ ~IsArray(dbInput)
  /\ dbPc' = "done"
  /\ UNCHANGED <<dbInput, dbIdx, dbSnap>>
  /\ UNCHANGED otherThanDeBank

\* chainData.forEach(proto => ...): the next protocol record
DBNextProto ==
  /\ dbPc = "loop"
  /\ IsArray(dbInput)
  /\ DBCurrentDone
  /\ Len(dbInput.v) < MaxProtos
  /\ \E proto \in DeBankProtoSet(MaxItems - DBItemsUsed) :
       /\ dbInput' = Arr(Append(dbInput.v, proto))
       /\ dbIdx' = 1
       /\ IF ProtoThrows(proto)
          THEN dbPc' = "threw" /\ UNCHANGED dbSnap
          ELSE dbPc' = "loop" /\ dbSnap' = DeBankBucket(dbSnap, proto)
  /\ UNCHANGED otherThanDeBank

\* proto.portfolio_item_list.forEach(item => ...): the next portfolio item
DBNextItem ==
  /\ dbPc = "loop"
  /\ IsArray(dbInput)
  /\ ~DBCurrentDone
  /\ LET proto == dbInput.v[Len(dbInput.v)]
         item == PortfolioItems(proto)[dbIdx]
     IN IF ItemThrows(item)
        THEN dbPc' = "threw" /\ UNCHANGED <<dbIdx, dbSnap>>
        ELSE /\ dbSnap' = DeBankItem(dbSnap, DeBankProtoName(proto), item)
             /\ dbIdx' = dbIdx + 1
             /\ dbPc' = "loop"
  /\ UNCHANGED dbInput
  /\ UNCHANGED otherThanDeBank

\* return { protocols, totalValue }
DBReturn ==
  /\ dbPc = "loop"
  /\ IsArray(dbInput)
  /\ DBCurrentDone
  /\ dbPc' = "done"
  /\ UNCHANGED <<dbInput, dbIdx, dbSnap>>
  /\ UNCHANGED otherThanDeBank

NextDeBank == DBRejectNonArray \/ DBNextProto \/ DBNextItem \/ DBReturn

SpecDeBank == InitDeBank /\ [][NextDeBank]_vars

\* the stepwise run returns what the function returns on the payload read
DeBankRunMatches ==
  dbPc = "done" => normalizeDeBank(dbInput) = Returned(dbSnap)


(***************************************************************************)
(* main, one (address, chain) pair per step                                *)
(***************************************************************************)
\* the address directories holding a raw file of a provider
DirsOf(files, rootName) == {f[2] : f \in {g \in DOMAIN files : g[1] = rootName}}

\* the sequences that list the set S once each
Orderings(S) ==
  {o \in [1..Cardinality(S) -> S] : \A i, j \in 1..Cardinality(S) : o[i] = o[j] => i = j}

InitMain ==
  /\ fsFiles \in FileTrees
  /\ \E dirs \in SUBSET DiskAddrs :
       /\ DirsOf(fsFiles, "data") \subseteq dirs
       /\ fsRoot = [n \in dirs \cup {StrayEntry} |->
                      IF n = StrayEntry THEN "file" ELSE "dir"]
  /\ outFile = <<>>
  /\ mAddrs = <<>> /\ mA = 1 /\ mC = 1 /\ mResult = <<>>
  /\ mPc = "start"
  /\ IdleDeBank
  /\ IdleZerion
  /\ IdleFetch
  /\ IdleRepeat

\* let addresses = getDirectories(DATA_DIR_DEBANK), filtered; const result = {}
MListAddresses ==
  /\ mPc = "start"
  /\ mAddrs' \in Orderings(MainAddresses(fsRoot))
  /\ mA' = 1 /\ mC' = 1 /\ mResult' = <<>>
  /\ mPc' = "loop"
  /\ UNCHANGED fsVars
  /\ UNCHANGED otherThanMain

\* the body of Object.keys(CHAIN_MAP).forEach for the current address
MNextPair ==
  /\ mPc = "loop"
  /\ mA <= Len(mAddrs)
  /\ IF PairThrows(fsFiles, mAddrs[mA], ChainOrder[mC])
     THEN mPc' = "threw" /\ UNCHANGED <<mA, mC, mResult>>
     ELSE /\ mResult' = ResultAfterPair(mResult, fsFiles, mAddrs[mA], mC)
          /\ IF mC < Len(ChainOrder)
             THEN mC' = mC + 1 /\ mA' = mA
             ELSE mC' = 1 /\ mA' = mA + 1
          /\ mPc' = "loop"
  /\ UNCHANGED mAddrs
  /\ UNCHANGED fsVars
  /\ UNCHANGED otherThanMain

\* variant: the dataset is also written each time an address is completed
MWriteEachAddress ==
  /\ mPc = "loop"
  /\ mC = 1 /\ mA > 1
  /\ outFile' = <<mResult>>
  /\ mPc' = IF mA > Len(mAddrs) THEN "done" ELSE "loop"
  /\ UNCHANGED <<fsRoot, fsFiles>>
  /\ UNCHANGED <<mAddrs, mA, mC, mResult>>
  /\ UNCHANGED otherThanMain

\* fs.writeFileSync(OUTPUT_FILE, JSON.stringify(result, null, 2))
MWrite ==
  /\ mPc = "loop"
  /\ mA > Len(mAddrs)
  /\ outFile' = <<mResult>>
  /\ mPc' = "done"
  /\ UNCHANGED <<fsRoot, fsFiles>>
  /\ UNCHANGED <<mAddrs, mA, mC, mResult>>
  /\ UNCHANGED otherThanMain

NextMain == MListAddresses \/ MNextPair \/ MWrite

SpecMain == InitMain /\ [][NextMain]_vars

(***************************************************************************)
(* Properties of normalizeDeBank                                           *)
(***************************************************************************)
\* the portfolio items read so far, each with the bucket name of its record
RECURSIVE PairsRead(_, _)
PairsRead(protos, idx) ==
  IF protos = <<>> THEN <<>>
  ELSE LET its == IF Len(protos) = 1
                  THEN SubSeq(PortfolioItems(protos[1]), 1, idx - 1)
                  ELSE PortfolioItems(Head(protos))
       IN [i \in 1..Len(its) |-> [name |-> DeBankProtoName(Head(protos)), item |-> its[i]]]
          \o (IF Len(protos) = 1 THEN <<>> ELSE PairsRead(Tail(protos), idx))

DBPairs == IF IsArray(dbInput) THEN PairsRead(dbInput.v, dbIdx) ELSE <<>>

\* sum of the net values of the items read so far (of bucket n only)
DBNetRead == SumSeq([i \in 1..Len(DBPairs) |-> ItemNet(DBPairs[i].item)])
DBNetReadOf(n) ==
  SumSeq([i \in 1..Len(DBPairs) |->
            IF DBPairs[i].name = n THEN ItemNet(DBPairs[i].item) ELSE 0])

\* every item read so far reports a net value equal to the value of its tokens
DBNetsMatchTokens ==
  \A i \in 1..Len(DBPairs) :
    ItemNet(DBPairs[i].item) = SumAssets(ItemAssets(DBPairs[i].item))

\* C1 (as stated): in the snapshot returned by normalizeDeBank every bucket's
\* value is the sum of the values of its assets.
C1_ValueIsAssetSum ==
  dbPc = "done" =>
    \A n \in DOMAIN dbSnap.protocols :
      dbSnap.protocols[n].value = SumAssets(dbSnap.protocols[n].assets)

\* C1 (amended): every bucket's value is the sum of the net_usd_value of the
\* portfolio items of the records of that name; it is the sum of the values of
\* its assets whenever each item's net value equals the value of its tokens.
C1_ValueIsNetSum ==
  dbPc = "done" =>
    \A n \in DOMAIN dbSnap.protocols :
      /\ dbSnap.protocols[n].value = DBNetReadOf(n)
      /\ DBNetsMatchTokens =>
           dbSnap.protocols[n].value = SumAssets(dbSnap.protocols[n].assets)

C1_Witness ==
  /\ dbPc = "done"
  /\ Len(DBPairs) = 2
  /\ DBNetsMatchTokens
  /\ \E n \in DOMAIN dbSnap.protocols :
       /\ Len(dbSnap.protocols[n].assets) >= 2
       /\ dbSnap.protocols[n].value # 0

\* C2: every asset of role 'borrow' has value <= 0, and value < 0 unless its
\* amount or its price is zero, whatever the signs of the raw amount and price.
C2_BorrowNeverPositive ==
  dbPc # "threw" =>
    \A n \in DOMAIN dbSnap.protocols :
      \A i \in 1..Len(dbSnap.protocols[n].assets) :
        LET a == dbSnap.protocols[n].assets[i]
        IN a.type = "borrow" =>
             /\ a.value.v <= 0
             /\ (a.amount.v # 0 /\ a.price.v # 0) => a.value.v < 0

\* C8: after any prefix of the portfolio items, totalValue is the sum of the
\* net values of the items processed so far and the sum of protocols[*].value;
\* at the return every item of the payload has been counted exactly once.
C8_TotalIsNetSum ==
  dbPc # "threw" =>
    /\ dbSnap.totalValue = DBNetRead
    /\ dbSnap.totalValue = SumProtocols(dbSnap.protocols)
    /\ (dbPc = "done" /\ IsArray(dbInput)) =>
         Len(DBPairs) = SumSeq([p \in 1..Len(dbInput.v) |->
                                  Len(PortfolioItems(dbInput.v[p]))])

C8_Witness ==
  /\ dbPc = "loop"
  /\ Len(DBPairs) = 2
  /\ Cardinality(DOMAIN dbSnap.protocols) = 2
  /\ dbSnap.totalValue # 0
  /\ \A n \in DOMAIN dbSnap.protocols : dbSnap.protocols[n].value # 0


(***************************************************************************)
(* normalizeZerion, one loop iteration per step                            *)
(***************************************************************************)
ZIsList(raw) == IsArray(raw) \/ IsArray(Get(raw, "data"))

\* the payload with one more position at the end of its list
ZAppend(raw, pos) ==
  IF IsArray(raw) THEN Arr(Append(raw.v, pos))
  ELSE Obj([raw.v EXCEPT !["data"] = Arr(Append(@.v, pos))])

InitZerion ==
  /\ zRaw \in ZerionListInputs \cup ZerionOtherInputs
  /\ zChain \in ZerionChainIds
  /\ zSnap = EmptySnapshot
  /\ zPc = "start"
  /\ IdleDeBank
  /\ IdleMain
  /\ IdleFetch
  /\ IdleRepeat

\* chainDataRaw.data: the shape test at the head of the function
ZSelectItems ==
  /\ zPc = "start"
  /\ zPc' = IF ZerionRawThrows(zRaw) THEN "threw" ELSE "loop"
  /\ UNCHANGED <<zRaw, zChain, zSnap>>
  /\ UNCHANGED otherThanZerion

\* items.forEach(pos => ...): the next position
ZNextPos ==
  /\ zPc = "loop"
  /\ ZIsList(zRaw)
  /\ Len(ZerionItems(zRaw)) < MaxPositions
  /\ \E pos \in ZerionPosSet :
       /\ zRaw' = ZAppend(zRaw, pos)
       /\ IF PosThrows(pos)
          THEN zPc' = "threw" /\ UNCHANGED zSnap
          ELSE zPc' = "loop" /\ zSnap' = ZerionPosition(zSnap, zChain, pos)
  /\ UNCHANGED zChain
  /\ UNCHANGED otherThanZerion

\* return { protocols, totalValue }
ZReturn ==
  /\ zPc = "loop"
  /\ zPc' = "done"
  /\ UNCHANGED <<zRaw, zChain, zSnap>>
  /\ UNCHANGED otherThanZerion

NextZerion == ZSelectItems \/ ZNextPos \/ ZReturn

SpecZerion == InitZerion /\ [][NextZerion]_vars

\* the stepwise run returns what the function returns on the payload read
ZerionRunMatches ==
  zPc = "done" => normalizeZerion(zRaw, zChain) = Returned(zSnap)


(***************************************************************************)
(* Properties of normalizeZerion                                           *)
(***************************************************************************)
\* the positions read so far
ZRead == IF zPc \in {"loop", "done"} THEN ZerionItems(zRaw) ELSE <<>>

\* the protocol attribute of a position, undefined when there is none
ProtocolOf(pos) ==
  IF CanRead(pos) THEN OptGet(Get(pos, "attributes"), "protocol") ELSE Undefined

NoProtocol(pos) == ProtocolOf(pos) \in {Null, Undefined}

\* the value a position reports, 0 when it reports none
ReportedValue(pos) ==
  LET v == Get(Get(pos, "attributes"), "value") IN IF v.k = "num" THEN v.v ELSE 0

\* the positions with a protocol, in input order (those landing in bucket n)
RECURSIVE WithProtocol(_)
WithProtocol(items) ==
  IF items = <<>> THEN <<>>
  ELSE (IF NoProtocol(Head(items)) THEN <<>> ELSE <<Head(items)>>)
       \o WithProtocol(Tail(items))

RECURSIVE LandingIn(_, _, _)
LandingIn(items, chainId, n) ==
  IF items = <<>> THEN <<>>
  ELSE (IF ResolveAlias(chainId, ProtocolOf(Head(items)).v) = n
        THEN <<Head(items)>> ELSE <<>>)
       \o LandingIn(Tail(items), chainId, n)

ZKept == WithProtocol(ZRead)
ZKeptIn(n) == LandingIn(ZKept, zChain, n)
ZKeptNames == {ResolveAlias(zChain, ProtocolOf(ZKept[i]).v) : i \in 1..Len(ZKept)}

\* C6: positions of one chain that resolve to the same protocol name share one
\* bucket: its value is the sum of their values and its asset list holds one
\* asset per position, in input order; no bucket is replaced by a later position.
C6_SameNameMerged ==
  zPc # "threw" =>
    /\ DOMAIN zSnap.protocols = ZKeptNames
    /\ \A n \in DOMAIN zSnap.protocols :
         LET ps == ZKeptIn(n)
         IN /\ zSnap.protocols[n].assets =
                 [i \in 1..Len(ps) |-> ZerionAsset(Get(ps[i], "attributes"))]
            /\ zSnap.protocols[n].value =
                 SumSeq([i \in 1..Len(ps) |-> ReportedValue(ps[i])])

C6_Witness ==
  /\ zPc = "done"
  /\ zChain = Str("ethereum")
  /\ DOMAIN zSnap.protocols = {"Morpho"}
  /\ Len(zSnap.protocols["Morpho"].assets) = 3
  /\ \E i \in 1..Len(ZRead) : ProtocolOf(ZRead[i]) = Str("Morpho Blue")
  /\ \E i \in 1..Len(ZRead) : ProtocolOf(ZRead[i]) = Str("Morpho")

AssetCount(protocols) ==
  SumSet([n \in DOMAIN protocols |-> Len(protocols[n].assets)], DOMAIN protocols)

\* C7: a position whose protocol attribute is null or absent emits no asset,
\* creates no bucket and adds nothing to totalValue; a payload made only of
\* such positions yields {protocols: {}, totalValue: 0}.
C7_NoProtocolNoAsset ==
  zPc # "threw" =>
    /\ AssetCount(zSnap.protocols) = Len(ZKept)
    /\ Cardinality(DOMAIN zSnap.protocols) <= Len(ZKept)
    /\ zSnap.totalValue = SumSeq([i \in 1..Len(ZKept) |-> ReportedValue(ZKept[i])])
    /\ (\A i \in 1..Len(ZRead) : NoProtocol(ZRead[i])) => zSnap = EmptySnapshot

C7_Witness ==
  /\ zPc = "done"
  /\ Len(ZRead) = 3
  /\ \A i \in 1..Len(ZRead) : NoProtocol(ZRead[i])
  /\ \E i \in 1..Len(ZRead) : ProtocolOf(ZRead[i]) = Null /\ ReportedValue(ZRead[i]) = 50
  /\ \E i \in 1..Len(ZRead) : ProtocolOf(ZRead[i]) = Undefined

\* C9: after any prefix of the positions, totalValue is the sum of the reported
\* values of the positions kept so far and the sum of protocols[*].value; each
\* protocol's value is the sum of its assets' values, and each asset carries
\* the reported value of its position with its sign.
C9_TotalIsValueSum ==
  zPc # "threw" =>
    /\ zSnap.totalValue = SumSeq([i \in 1..Len(ZKept) |-> ReportedValue(ZKept[i])])
    /\ zSnap.totalValue = SumProtocols(zSnap.protocols)
    /\ \A n \in DOMAIN zSnap.protocols :
         /\ zSnap.protocols[n].value = SumAssets(zSnap.protocols[n].assets)
         /\ AssetValues(zSnap.protocols[n].assets) =
              [i \in 1..Len(ZKeptIn(n)) |-> ReportedValue(ZKeptIn(n)[i])]

C9_Witness ==
  /\ zPc = "loop"
  /\ Len(ZRead) = 3
  /\ Len(ZKept) = 2
  /\ Cardinality(DOMAIN zSnap.protocols) = 2
  /\ \E n \in DOMAIN zSnap.protocols : zSnap.protocols[n].value < 0
  /\ zSnap.totalValue > 0

\* the alias table read directly: the entry of (c, n) when there is one
TableName(c, n) ==
  IF c.k = "str" /\ c.v \in DOMAIN PROTOCOL_NAME_MAP
  THEN (IF n \in DOMAIN PROTOCOL_NAME_MAP[c.v] THEN PROTOCOL_NAME_MAP[c.v][n] ELSE n)
  ELSE n

\* C10: the bucket of a position named n on chain c is named
\* PROTOCOL_NAME_MAP[c][n] when that entry exists and n otherwise; the entries
\* of the other chains play no part.
C10_AliasIsChainScoped ==
  zPc # "threw" =>
    /\ DOMAIN zSnap.protocols =
         {TableName(zChain, ProtocolOf(ZKept[i]).v) : i \in 1..Len(ZKept)}
    /\ \A n \in DOMAIN zSnap.protocols :
         zSnap.protocols[n].name = n /\ zSnap.protocols[n].id = Str(n)

C10_Witness ==
  /\ zPc = "done"
  /\ zChain = Str("ethereum")
  /\ DOMAIN zSnap.protocols = {"Helio", "Morpho"}
  /\ \E i \in 1..Len(ZRead) : ProtocolOf(ZRead[i]) = Str("Morpho Blue")
  /\ "Helio" \in DOMAIN PROTOCOL_NAME_MAP["binance-smart-chain"]


(***************************************************************************)
(* Properties of error handling and of main                                *)
(***************************************************************************)
\* C3: normalizeDeBank and normalizeZerion are total: on records with missing
\* nested fields the call returns a snapshot and never ends in an error.
C3_NormalizersNeverThrow == dbPc # "threw" /\ zPc # "threw"

\* the (address, chain) pairs of the processed addresses that have raw data
\* and whose normalization does not fail
GoodPairs ==
  {p \in MainAddresses(fsRoot) \X DOMAIN CHAIN_MAP :
     ~PairSkipped(fsFiles, p[1], p[2]) /\ ~PairThrows(fsFiles, p[1], p[2])}

\* C4: when the run has ended, whether or not a pair failed, the dataset is
\* written and holds the record of every other pair that has raw data.
C4_FailureIsContained ==
  mPc \in {"done", "threw"} =>
    \A p \in GoodPairs :
      /\ outFile # <<>>
      /\ p[1] \in DOMAIN outFile[1]
      /\ CHAIN_MAP[p[2]] \in DOMAIN outFile[1][p[1]]
      /\ outFile[1][p[1]][CHAIN_MAP[p[2]]] = PairRecord(fsFiles, p[1], p[2])

\* the allow-listed addresses with a directory under exactly one data root
OneProviderAddrs ==
  {a \in DiskAddrs :
     /\ IsTarget(a)
     /\ (a \in getDirectories(fsRoot)) # (a \in DirsOf(fsFiles, "data_zerion"))}

\* C5: an address with raw data for one provider only, whichever it is, is in
\* the output, with the other provider's snapshot empty on every chain.
C5_OneProviderAddressKept ==
  mPc = "done" =>
    \A a \in OneProviderAddrs :
      /\ a \in DOMAIN outFile[1]
      /\ \A k \in DOMAIN outFile[1][a] :
           IF a \in getDirectories(fsRoot)
           THEN outFile[1][a][k].zerion = EmptySnapshot
           ELSE outFile[1][a][k].debank = EmptySnapshot


(***************************************************************************)
(* Roles and order of the emitted assets                                   *)
(***************************************************************************)
\* the position_type tag of a kept position, undefined when absent
TagOf(pos) == Get(Get(pos, "attributes"), "position_type")

\* the role the comparison expects for a tag
RoleOfTag(tag) ==
  CASE tag = Str("locked") -> Str("supply")
    [] tag = Str("staked") -> Str("supply")
    [] OTHER -> tag

\* C11: for every kept provider-B position the emitted asset's `type` is
\* 'supply' when position_type is 'locked' or 'staked', and is the input
\* position_type itself for every other tag, an absent tag included.
C11_RoleFromPositionType ==
  zPc # "threw" =>
    \A n \in DOMAIN zSnap.protocols :
      LET ps == ZKeptIn(n)
          as == zSnap.protocols[n].assets
      IN /\ Len(as) = Len(ps)
         /\ \A i \in 1..Len(ps) : as[i].type = RoleOfTag(TagOf(ps[i]))

C11_Witness ==
  /\ zPc = "done"
  /\ \E i \in 1..Len(ZKept) : TagOf(ZKept[i]) = Str("locked")
  /\ \E i \in 1..Len(ZKept) : TagOf(ZKept[i]) = Str("borrowed")
  /\ \E i \in 1..Len(ZKept) : TagOf(ZKept[i]) = Undefined
  /\ \E n \in DOMAIN zSnap.protocols : \E i \in 1..Len(zSnap.protocols[n].assets) :
       zSnap.protocols[n].assets[i].type = Str("supply")
  /\ \E n \in DOMAIN zSnap.protocols : \E i \in 1..Len(zSnap.protocols[n].assets) :
       zSnap.protocols[n].assets[i].type = Undefined

\* the entries of a raw token list of an item, each tagged with a role
RawList(item, f) ==
  LET l == DetailField(item, f) IN IF IsArray(l) THEN l.v ELSE <<>>

Tagged(role, tokens) == [i \in 1..Len(tokens) |-> [role |-> role, token |-> tokens[i]]]

\* the raw token entries of an item in the order supply, borrow, reward, vesting
RawEntries(item) ==
  Tagged("supply", RawList(item, "supply_token_list"))
  \o Tagged("borrow", RawList(item, "borrow_token_list"))
  \o Tagged("reward", RawList(item, "reward_token_list"))
  \o (IF DetailField(item, "token").k = "obj"
      THEN Tagged("vesting", <<DetailField(item, "token")>>) ELSE <<>>)

\* the raw entries of the items read so far that belong to bucket n
RECURSIVE RawEntriesOf(_, _)
RawEntriesOf(pairs, n) ==
  IF pairs = <<>> THEN <<>>
  ELSE (IF Head(pairs).name = n THEN RawEntries(Head(pairs).item) ELSE <<>>)
       \o RawEntriesOf(Tail(pairs), n)

\* C12: for each portfolio item normalizeDeBank appends one asset per entry of
\* supply_token_list (role supply), then of borrow_token_list (role borrow),
\* then of reward_token_list (role reward), then one vesting asset when
\* detail.token is present; no entry is dropped or duplicated and the order
\* of items and of entries is preserved.
C12_AssetsFollowTokenLists ==
  dbPc # "threw" =>
    \A n \in DOMAIN dbSnap.protocols :
      LET raw == RawEntriesOf(DBPairs, n)
          as == dbSnap.protocols[n].assets
      IN /\ Len(as) = Len(raw)
         /\ \A i \in 1..Len(raw) :
              /\ as[i].type = raw[i].role
              /\ as[i].symbol = Trim(Get(raw[i].token, "symbol"))
              /\ as[i].amount = Get(raw[i].token, "amount")
              /\ as[i].price = Get(raw[i].token, "price")

C12_Witness ==
  /\ dbPc = "done"
  /\ Len(DBPairs) = 2
  /\ \E n \in DOMAIN dbSnap.protocols :
       LET as == dbSnap.protocols[n].assets
       IN /\ Len(as) = 6
          /\ <<as[1].type, as[2].type, as[3].type, as[4].type, as[5].type, as[6].type>>
               = <<"vesting", "supply", "supply", "borrow", "reward", "vesting">>


PairsDone ==
  IF mPc \in {"loop", "done", "threw"}
  THEN {p \in (1..Len(mAddrs)) \X (1..Len(ChainOrder)) :
          p[1] < mA \/ (p[1] = mA /\ p[2] < mC)}
  ELSE {}

\* a raw file that is missing or does not parse
Unusable(f) == f \notin DOMAIN fsFiles \/ fsFiles[f] = Garbage

\* the record of pair (a, d) in a result mapping, when the other side of a
\* provider's file is missing or unparsable
OneSidedKept(result, a, d) ==
  LET df == DebankFile(a, d)
      zf == ZerionFile(a, CHAIN_MAP[d])
  IN ((df \in DOMAIN fsFiles \/ zf \in DOMAIN fsFiles) /\ (Unusable(df) \/ Unusable(zf))) =>
       /\ a \in DOMAIN result
       /\ CHAIN_MAP[d] \in DOMAIN result[a]
       /\ LET rec == result[a][CHAIN_MAP[d]]
          IN /\ rec.debank = IF Unusable(df) THEN EmptySnapshot
                             ELSE normalizeDeBank(fsFiles[df]).snap
             /\ rec.zerion = IF Unusable(zf) THEN EmptySnapshot
                             ELSE normalizeZerion(fsFiles[zf], Str(CHAIN_MAP[d])).snap

\* C14: for a processed address and a mapped chain where only one provider's
\* raw file exists, or where the other provider's file does not parse, the
\* chain entry is emitted with the present provider's normalized snapshot and
\* {protocols: {}, totalValue: 0} for the missing or unparsable side.
C14_OneSidedEntryKept ==
  /\ \A p \in PairsDone : OneSidedKept(mResult, mAddrs[p[1]], ChainOrder[p[2]])
  /\ mPc = "done" =>
       \A p \in PairsDone : OneSidedKept(outFile[1], mAddrs[p[1]], ChainOrder[p[2]])

C14_Witness ==
  /\ mPc = "done"
  /\ \E a \in DOMAIN outFile[1] :
       /\ DebankFile(a, "eth") \in DOMAIN fsFiles
       /\ ZerionFile(a, "ethereum") \notin DOMAIN fsFiles
       /\ ZerionFile(a, "optimism") \in DOMAIN fsFiles
       /\ DebankFile(a, "op") \notin DOMAIN fsFiles
       /\ outFile[1][a]["ethereum"].debank.totalValue = 6
       /\ outFile[1][a]["ethereum"].zerion = EmptySnapshot
       /\ outFile[1][a]["optimism"].debank = EmptySnapshot
       /\ outFile[1][a]["optimism"].zerion.totalValue = 6

\* the directories of the raw-data root whose name, letter case apart, is one
\* of the listed addresses
ListedDirs ==
  {a \in getDirectories(fsRoot) :
     \E i \in 1..Len(TargetAddressList) : TargetAddressList[i].lc = a.lc}

\* C15: with the non-empty allow-list TARGET_ADDRESSES the address keys of the
\* output are the raw-data address directories that are in the allow-list,
\* compared case-insensitively and keyed with the casing stored on disk; with
\* an empty allow-list every address directory is processed.
C15_AllowListFilters ==
  /\ Len(TARGET_ADDRESSES) > 0
  /\ mPc \in {"loop", "done", "threw"} =>
       {mAddrs[i] : i \in 1..Len(mAddrs)} = ListedDirs
  /\ mPc = "done" => DOMAIN outFile[1] = ListedDirs
  /\ FilterAddresses(<<>>, getDirectories(fsRoot)) = getDirectories(fsRoot)

C15_Witness ==
  /\ mPc = "done"
  /\ getDirectories(fsRoot) = DiskAddrs
  /\ DOMAIN outFile[1] =
       {Addr("0x9d17bb55b57b31329cf01aa7017948e398b277bc", FALSE),
        Addr("0x15b325660a1c4a9582a7d834c31119c0cb9e3a42", TRUE)}


(***************************************************************************)
(* The two fetchers: chain tables and retry loops                          *)
(***************************************************************************)
TARGET_CHAINS_IDS == <<1, 10, 137, 250, 324, 42161, 43114, 534352, 56, 59144, 8453>>

\* TARGET_CHAIN_MAP of fetch_protocol.js: EVM chain id -> provider-A slug
DeBankTargetChainMap ==
  [n \in {1, 10, 56, 137, 250, 324, 8453, 42161, 43114, 59144, 534352} |->
     CASE n = 1 -> "eth"
       [] n = 10 -> "op"
       [] n = 56 -> "bsc"
       [] n = 137 -> "matic"
       [] n = 250 -> "ftm"
       [] n = 324 -> "zksync"
       [] n = 8453 -> "base"
       [] n = 42161 -> "arb"
       [] n = 43114 -> "avax"
       [] n = 59144 -> "linea"
       [] n = 534352 -> "scroll"]

\* TARGET_CHAIN_MAP of fetch_zerion.js: EVM chain id -> provider-B chain id
ZerionTargetChainMap ==
  [n \in {1, 10, 56, 137, 250, 324, 8453, 42161, 43114, 59144, 534352} |->
     CASE n = 1 -> "ethereum"
       [] n = 10 -> "optimism"
       [] n = 56 -> "binance-smart-chain"
       [] n = 137 -> "polygon"
       [] n = 250 -> "fantom"
       [] n = 324 -> "zksync-era"
       [] n = 8453 -> "base"
       [] n = 42161 -> "arbitrum"
       [] n = 43114 -> "avalanche"
       [] n = 59144 -> "linea"
       [] n = 534352 -> "scroll"]

\* TARGET_CHAINS_IDS.map(id => TARGET_CHAIN_MAP[id]).filter(Boolean)
ALLOWED_DEBANK_CHAINS ==
  SelectSeq([i \in 1..Len(TARGET_CHAINS_IDS) |->
               IF TARGET_CHAINS_IDS[i] \in DOMAIN DeBankTargetChainMap
               THEN DeBankTargetChainMap[TARGET_CHAINS_IDS[i]] ELSE ""],
            LAMBDA c : c # "")

ALLOWED_ZERION_CHAINS ==
  SelectSeq([i \in 1..Len(TARGET_CHAINS_IDS) |->
               IF TARGET_CHAINS_IDS[i] \in DOMAIN ZerionTargetChainMap
               THEN ZerionTargetChainMap[TARGET_CHAINS_IDS[i]] ELSE ""],
            LAMBDA c : c # "")

\* Array.prototype.includes
Includes(list, x) == \E i \in 1..Len(list) : list[i] = x

\* MAX_RETRIES of getProtocolList and of getWalletPositions
ProtocolListMaxRetries == 3
WalletPositionsMaxRetries == 3

\* the outcome of a request: a response (status 200 or 202, with a body), or
\* an error carrying the status of error.response (0 when there is none)
Ok(status, data) == [kind |-> "ok", status |-> status, data |-> data]
Err(status) == [kind |-> "err", status |-> status]

RespTag(resp) ==
  IF resp.kind = "ok" THEN (IF resp.status = 202 THEN "202" ELSE "ok")
  ELSE IF resp.status = 429 THEN "429" ELSE "error"

\* one iteration of a retry loop: the new retries, whether the call returned
\* and the value returned
Again(retries) == [retries |-> retries, returned |-> FALSE, value |-> Undefined]
Return(retries, value) == [retries |-> retries, returned |-> TRUE, value |-> value]

\* variant: every failed request is retried, whatever its status
ProtocolListStepRetryAll(retries, resp) ==
  IF resp.kind = "ok" THEN Return(retries, OrElse(resp.data, Arr(<<>>)))
  ELSE IF retries + 1 <= ProtocolListMaxRetries THEN Again(retries + 1)
  ELSE Return(retries + 1, Arr(<<>>))

\* getProtocolList: the body of while (retries <= MAX_RETRIES)
ProtocolListStep(retries, resp) ==
  IF resp.kind = "ok" THEN Return(retries, OrElse(resp.data, Arr(<<>>)))
  ELSE IF resp.status = 429
       THEN IF retries + 1 <= ProtocolListMaxRetries THEN Again(retries + 1)
            ELSE Return(retries + 1, Arr(<<>>))
  ELSE Return(retries, Arr(<<>>))

\* getWalletPositions: retries++; continue; and the loop test that follows
WalletPositionsRetry(retries) ==
  IF retries + 1 < WalletPositionsMaxRetries THEN Again(retries + 1)
  ELSE Return(retries + 1, Null)

\* getWalletPositions: the body of while (retries < MAX_RETRIES)
WalletPositionsStep(retries, resp) ==
  IF resp.kind = "ok"
  THEN IF resp.status = 202 THEN WalletPositionsRetry(retries)
       ELSE IF CanRead(resp.data) THEN Return(retries, Get(resp.data, "data"))
       ELSE Return(retries, Null)
  ELSE IF resp.status = 429 THEN WalletPositionsRetry(retries)
  ELSE Return(retries, Null)

\* pos.relationships?.chain?.data?.id
PosChainId(pos) ==
  OptGet(OptGet(OptGet(Get(pos, "relationships"), "chain"), "data"), "id")

\* the allowed chains that received at least one position
ZerionChainsSaved(positions) ==
  {c \in {ALLOWED_ZERION_CHAINS[i] : i \in 1..Len(ALLOWED_ZERION_CHAINS)} :
     \E i \in 1..Len(positions) : PosChainId(positions[i]) = Str(c)}

(***************************************************************************)
(* The server responses explored                                           *)
(***************************************************************************)
\* addresses listed in the YAML file
MaxFetchAddrs == 2

\* what /v1/user/used_chain_list reports; <<>> also stands for a failed call
UsedChainLists ==
  { <<>>, <<"eth", "zksync">>, <<"era", "op">>, <<"scroll">>, <<"xdai">> }

DeBankResponses ==
  { Ok(200, Arr(<<Obj([name |-> Str("Aave V3"), id |-> Str("aave3")])>>)),
    Ok(200, Arr(<<>>)), Ok(200, Null), Err(429), Err(404), Err(0) }

OnChain(c) ==
  Obj([relationships |-> Obj([chain |-> Obj([data |-> Obj([id |-> Str(c)])])])])

ZerionResponses ==
  { Ok(200, Obj([data |-> Arr(<<OnChain("ethereum"), OnChain("zksync-era")>>)])),
    Ok(200, Obj([data |-> Arr(<<OnChain("scroll"), OnChain("solana"), EmptyObj>>)])),
    Ok(200, Obj([data |-> Arr(<<Null>>)])),
    Ok(200, Obj([data |-> EmptyObj])),
    Ok(200, Undefined),
    Ok(202, EmptyObj), Err(429), Err(500), Err(0) }

(***************************************************************************)
(* The fetchers' main loops, one request or one loop step per step         *)
(***************************************************************************)
InitFetch ==
  /\ fScript \in {"debank", "zerion"}
  /\ fAddr = 1 /\ fChains = <<>> /\ fRetries = 0 /\ fRequests = 0
  /\ fLast = "none" /\ fResult = Undefined /\ fFiles = {}
  /\ fPc = "address"
  /\ IdleDeBank
  /\ IdleZerion
  /\ IdleMain
  /\ IdleRepeat

\* the head of a call: let retries = 0
EnterCall ==
  /\ fRetries' = 0 /\ fRequests' = 0 /\ fLast' = "none" /\ fResult' = Undefined
  /\ fPc' = "call"

\* fetch_protocol main: getUsedChains, the filter, and the two `continue`
FetchUsedChains ==
  /\ fScript = "debank" /\ fPc = "address" /\ fAddr <= MaxFetchAddrs
  /\ \E used \in UsedChainLists :
       LET usedChains == SelectSeq(used, LAMBDA c : Includes(ALLOWED_DEBANK_CHAINS, c))
       IN IF usedChains = <<>>
          THEN /\ fAddr' = fAddr + 1
               /\ UNCHANGED <<fChains, fRetries, fRequests, fLast, fResult, fPc>>
          ELSE /\ fChains' = usedChains
               /\ EnterCall
               /\ UNCHANGED fAddr
  /\ UNCHANGED <<fScript, fFiles>>
  /\ UNCHANGED otherThanFetch

\* getProtocolList: one request and what the loop does with its outcome
FetchProtocolListTry ==
  /\ fScript = "debank" /\ fPc = "call"
  /\ fRetries <= ProtocolListMaxRetries
  /\ \E resp \in DeBankResponses :
       LET s == ProtocolListStep(fRetries, resp)
       IN /\ fRequests' = fRequests + 1
          /\ fLast' = RespTag(resp)
          /\ fRetries' = s.retries
          /\ fResult' = s.value
          /\ fPc' = IF s.returned THEN "returned" ELSE "call"
  /\ UNCHANGED <<fScript, fAddr, fChains, fFiles>>
  /\ UNCHANGED otherThanFetch

\* fetch_protocol main: the rest of the chain loop body and the loop heads
FetchProtocolListDone ==
  /\ fScript = "debank" /\ fPc = "returned"
  /\ fFiles' = IF Len(fResult.v) > 0
               THEN fFiles \cup {<<"data", fAddr, Head(fChains)>>} ELSE fFiles
  /\ fChains' = Tail(fChains)
  /\ IF Tail(fChains) # <<>>
     THEN EnterCall /\ UNCHANGED fAddr
     ELSE /\ fAddr' = fAddr + 1
          /\ fPc' = "address"
          /\ UNCHANGED <<fRetries, fRequests, fLast, fResult>>
  /\ UNCHANGED fScript
  /\ UNCHANGED otherThanFetch

\* fetch_zerion main: const positionsData = await getWalletPositions(address)
FetchWalletStart ==
  /\ fScript = "zerion" /\ fPc = "address" /\ fAddr <= MaxFetchAddrs
  /\ EnterCall
  /\ UNCHANGED <<fScript, fAddr, fChains, fFiles>>
  /\ UNCHANGED otherThanFetch

\* getWalletPositions: one request and what the loop does with its outcome
FetchWalletTry ==
  /\ fScript = "zerion" /\ fPc = "call"
  /\ fRetries < WalletPositionsMaxRetries
  /\ \E resp \in ZerionResponses :
       LET s == WalletPositionsStep(fRetries, resp)
       IN /\ fRequests' = fRequests + 1
          /\ fLast' = RespTag(resp)
          /\ fRetries' = s.retries
          /\ fResult' = s.value
          /\ fPc' = IF s.returned THEN "returned" ELSE "call"
  /\ UNCHANGED <<fScript, fAddr, fChains, fFiles>>
  /\ UNCHANGED otherThanFetch

\* fetch_zerion main: the `continue` on no data, else the grouping by chain
\* and the chain files; a null position ends the script in the outer catch
FetchWalletDone ==
  /\ fScript = "zerion" /\ fPc = "returned"
  /\ IF ~Truthy(fResult) \/ ~IsArray(fResult)
     THEN fAddr' = fAddr + 1 /\ fPc' = "address" /\ UNCHANGED fFiles
     ELSE IF \E i \in 1..Len(fResult.v) : ~CanRead(fResult.v[i])
     THEN fPc' = "exit" /\ UNCHANGED <<fAddr, fFiles>>
     ELSE /\ fFiles' = fFiles \cup
                         {<<"data_zerion", fAddr, c>> : c \in ZerionChainsSaved(fResult.v)}
          /\ fAddr' = fAddr + 1
          /\ fPc' = "address"
  /\ UNCHANGED <<fScript, fChains, fRetries, fRequests, fLast, fResult>>
  /\ UNCHANGED otherThanFetch

\* the address loop is over
FetchFinish ==
  /\ fPc = "address" /\ fAddr > MaxFetchAddrs
  /\ fPc' = "done"
  /\ UNCHANGED <<fScript, fAddr, fChains, fRetries, fRequests, fLast, fResult, fFiles>>
  /\ UNCHANGED otherThanFetch

NextFetch ==
  \/ FetchUsedChains \/ FetchProtocolListTry \/ FetchProtocolListDone
  \/ FetchWalletStart \/ FetchWalletTry \/ FetchWalletDone
  \/ FetchFinish

SpecFetch == InitFetch /\ [][NextFetch]_vars

\* every request ends, in a response or in the error of the configured
\* timeout, and every sleep ends: a step that is possible is taken
SpecFetchFair == SpecFetch /\ WF_vars(NextFetch)

\* C16: the chain tables agree: for every tracked EVM chain id, the provider-A
\* slug of the fetcher mapped through CHAIN_MAP is the canonical key of the
\* numeric table, and every provider-A slug the fetcher writes a file for is
\* a key of CHAIN_MAP.
C16_ChainTablesAgree ==
  /\ \A f \in fFiles : f[1] = "data" => f[3] \in DOMAIN CHAIN_MAP
  /\ \A i \in 1..Len(TARGET_CHAINS_IDS) :
       LET n == TARGET_CHAINS_IDS[i]
       IN /\ DeBankTargetChainMap[n] \in DOMAIN CHAIN_MAP
          /\ CHAIN_MAP[DeBankTargetChainMap[n]] = ZerionTargetChainMap[n]

\* the retry loops never exceed their request budget, go round again only
\* after a 429 (or, for getWalletPositions, a 202), and return [] / null on
\* any other failure and on exhaustion
RetryLoopsBounded ==
  /\ fScript = "debank" =>
       /\ fRequests <= 4
       /\ (fPc = "call" /\ fRequests > 0) => fLast = "429"
       /\ (fPc = "returned" /\ fLast # "ok") => fResult = Arr(<<>>)
       /\ (fPc = "returned" /\ fLast = "429") => fRequests = 4
  /\ fScript = "zerion" =>
       /\ fRequests <= 3
       /\ (fPc = "call" /\ fRequests > 0) => fLast \in {"202", "429"}
       /\ (fPc = "returned" /\ fLast # "ok") => fResult = Null
       /\ (fPc = "returned" /\ fLast \in {"202", "429"}) => fRequests = 3

\* after a call that returned [] / null, main goes on with the next chain or
\* the next address and writes no file
ResumesAfterFailure ==
  (fPc = "returned" /\ fResult \in {Arr(<<>>), Null}) =>
    /\ fPc' \in {"call", "address"}
    /\ fFiles' = fFiles
    /\ \/ fAddr' = fAddr /\ Len(fChains') = Len(fChains) - 1
       \/ fAddr' = fAddr + 1

\* C20: both retry loops terminate for every sequence of server responses and
\* retry only on rate-limit/processing responses: getProtocolList issues at
\* most 4 requests and returns [] on a non-429 error or on exhaustion,
\* getWalletPositions at most 3 (202 and 429 share one counter) and returns
\* null; the script then resumes with the next chain or address.
C20_RetryLoopsTerminate ==
  /\ []RetryLoopsBounded
  /\ [][ResumesAfterFailure]_vars
  /\ (fPc = "call") ~> (fPc = "returned")

C20_Witness ==
  /\ fScript = "debank"
  /\ fAddr = 2
  /\ fPc = "returned"
  /\ fRequests = 4
  /\ fLast = "429"
  /\ fResult = Arr(<<>>)


(***************************************************************************)
(* The written dataset                                                     *)
(***************************************************************************)
\* the chains of CHAIN_MAP for which address a has a raw file of a provider
ChainsWithData(a) ==
  {d \in DOMAIN CHAIN_MAP :
     \/ DebankFile(a, d) \in DOMAIN fsFiles
     \/ ZerionFile(a, CHAIN_MAP[d]) \in DOMAIN fsFiles}

\* the record of a pair, from the contents of its two raw files
RecordFromFiles(a, d) ==
  [debank |-> IF Unusable(DebankFile(a, d)) THEN EmptySnapshot
              ELSE normalizeDeBank(fsFiles[DebankFile(a, d)]).snap,
   zerion |-> IF Unusable(ZerionFile(a, CHAIN_MAP[d])) THEN EmptySnapshot
              ELSE normalizeZerion(fsFiles[ZerionFile(a, CHAIN_MAP[d])],
                                   Str(CHAIN_MAP[d])).snap]

\* the dataset of a whole pass over the raw files
CompleteDataset ==
  [a \in ListedDirs |->
     [k \in {CHAIN_MAP[d] : d \in ChainsWithData(a)} |->
        RecordFromFiles(a, CHOOSE d \in ChainsWithData(a) : CHAIN_MAP[d] = k)]]

\* the output file is untouched, or the run is over and it holds the dataset
UntouchedOrComplete ==
  outFile # <<>> => (mPc = "done" /\ outFile = <<CompleteDataset>>)

\* the file changes only in a step that ends the pass, from the untouched state
WrittenOnceAtTheEnd ==
  outFile' # outFile =>
    /\ outFile = <<>>
    /\ mPc = "loop" /\ mA > Len(mAddrs)
    /\ mPc' = "done"

\* C17: the assembler writes the output dataset exactly once, after every
\* (address, chain) pair has been processed; in every execution, one that
\* fails part-way through included, the output file is either untouched or
\* holds the complete dataset, never a partial one.
C17_SingleFinalWrite ==
  /\ []UntouchedOrComplete
  /\ [][WrittenOnceAtTheEnd]_vars

C17_Witness ==
  /\ mPc = "threw"
  /\ mA = 2
  /\ DOMAIN mResult # {}
  /\ \E a \in DOMAIN mResult : DOMAIN mResult[a] # {}
  /\ outFile = <<>>


(***************************************************************************)
(* Calling a normalizer twice on the same raw input                        *)
(***************************************************************************)
\* variant: protocols and totalValue live outside the function and keep what
\* the previous call left in them
CallEntryKeep(previous) == previous

\* const protocols = {}; let totalValue = 0: the locals of a new call
CallEntry(previous) == EmptySnapshot

\* normalizeDeBank and normalizeZerion run from the locals of their entry
normalizeDeBankFrom(locals, chainData) ==
  IF ~IsArray(chainData) THEN Returned(locals)
  ELSE DeBankProtos(locals, chainData.v, 1)

normalizeZerionFrom(locals, chainDataRaw, chainId) ==
  IF ZerionRawThrows(chainDataRaw) THEN Thrown
  ELSE ZerionPositions(locals, chainId, ZerionItems(chainDataRaw), 1)

\* the raw inputs called twice
RepeatDeBankInputs ==
  {Arr(<<>>)} \cup NonArrayInputs \cup {Arr(<<p>>) : p \in DeBankProtoSet(1)}

RepeatZerionInputs ==
  ZerionOtherInputs
  \cup {Arr(l) : l \in UNION {[1..m -> ZerionPosSet] : m \in 0..2}}

InitRepeat ==
  /\ \/ rFn = "debank" /\ rInput \in RepeatDeBankInputs /\ rChain = Undefined
     \/ /\ rFn = "zerion" /\ rInput \in RepeatZerionInputs
        /\ rChain \in {Str("ethereum"), Str("optimism")}
  /\ rLocals = EmptySnapshot
  /\ rResults = <<>>
  /\ IdleDeBank
  /\ IdleZerion
  /\ IdleMain
  /\ IdleFetch

\* normalizeDeBank(rInput), a first or a second time
RepeatDeBank ==
  /\ rFn = "debank"
  /\ Len(rResults) < 2
  /\ LET r == normalizeDeBankFrom(CallEntry(rLocals), rInput)
     IN rResults' = Append(rResults, r) /\ rLocals' = r.snap
  /\ UNCHANGED <<rFn, rInput, rChain>>
  /\ UNCHANGED otherThanRepeat

\* normalizeZerion(rInput, rChain), a first or a second time
RepeatZerion ==
  /\ rFn = "zerion"
  /\ Len(rResults) < 2
  /\ LET r == normalizeZerionFrom(CallEntry(rLocals), rInput, rChain)
     IN rResults' = Append(rResults, r) /\ rLocals' = r.snap
  /\ UNCHANGED <<rFn, rInput, rChain>>
  /\ UNCHANGED otherThanRepeat

NextRepeat == RepeatDeBank \/ RepeatZerion

SpecRepeat == InitRepeat /\ [][NextRepeat]_vars

\* a call from fresh locals is the function itself
RepeatRunMatches ==
  \A i \in 1..Len(rResults) :
    rResults[i] = IF rFn = "debank" THEN normalizeDeBank(rInput)
                  ELSE normalizeZerion(rInput, rChain)

KeysDone(i) ==
  {CHAIN_MAP[ChainOrder[c]] : c \in {c \in 1..Len(ChainOrder) :
     <<i, c>> \in PairsDone /\ ChainOrder[c] \in ChainsWithData(mAddrs[i])}}

\* every record stored so far is the one its own two raw files give
RecordsFromOwnFiles ==
  \A i \in 1..Len(mAddrs) :
    (\E c \in 1..Len(ChainOrder) : <<i, c>> \in PairsDone) =>
      /\ mAddrs[i] \in DOMAIN mResult
      /\ DOMAIN mResult[mAddrs[i]] = KeysDone(i)
      /\ \A c \in 1..Len(ChainOrder) :
           (<<i, c>> \in PairsDone /\ ChainOrder[c] \in ChainsWithData(mAddrs[i])) =>
             mResult[mAddrs[i]][CHAIN_MAP[ChainOrder[c]]]
               = RecordFromFiles(mAddrs[i], ChainOrder[c])

\* a step never changes or removes a record stored before it
RecordsKept ==
  \A a \in DOMAIN mResult :
    /\ a \in DOMAIN mResult'
    /\ \A k \in DOMAIN mResult[a] :
         k \in DOMAIN mResult'[a] /\ mResult'[a][k] = mResult[a][k]

\* C19: the record stored for an (address, chain) pair depends only on that
\* pair's two raw inputs: whatever the order in which the addresses are
\* processed the final mapping is the same, and processing one pair never
\* changes the record of another pair.
C19_PairsIndependent ==
  /\ []RecordsFromOwnFiles
  /\ [](mPc = "done" => mResult = CompleteDataset)
  /\ [][RecordsKept]_vars

C19_Witness ==
  /\ mPc = "loop"
  /\ Len(mAddrs) = 2
  /\ mAddrs[1] = Addr("0x15b325660a1c4a9582a7d834c31119c0cb9e3a42", TRUE)
  /\ mA = 2 /\ mC = Len(ChainOrder)
  /\ DOMAIN mResult[mAddrs[1]] # {}
  /\ DOMAIN mResult[mAddrs[2]] # {}


(***************************************************************************)
(* Chain keys of the output                                                *)
(***************************************************************************)
\* the canonical keys, the range of CHAIN_MAP
CanonicalKeys == {CHAIN_MAP[d] : d \in DOMAIN CHAIN_MAP}

\* the canonical keys for which address a has a provider-A file under a slug
\* of that key or a provider-B file under the key itself
KeysWithFile(a) ==
  {c \in CanonicalKeys :
     \/ ZerionFile(a, c) \in DOMAIN fsFiles
     \/ \E d \in DOMAIN CHAIN_MAP : CHAIN_MAP[d] = c /\ DebankFile(a, d) \in DOMAIN fsFiles}

\* the raw files whose name is a slug or a key of the chain table
MappedFiles ==
  {f \in DOMAIN fsFiles :
     IF f[1] = "data" THEN f[3] \in DOMAIN CHAIN_MAP ELSE f[3] \in CanonicalKeys}

\* reading the file with the normalizer of its provider raises
FileRaises(f) ==
  /\ fsFiles[f] # Garbage
  /\ IF f[1] = "data" THEN normalizeDeBank(fsFiles[f]).threw
     ELSE normalizeZerion(fsFiles[f], Str(f[3])).threw

\* C21: for every processed address the chain keys of its record are exactly
\* the canonical keys of CHAIN_MAP for which at least one of the two provider
\* files exists; a chain with neither file gets no entry, and a raw file named
\* after a slug absent from CHAIN_MAP produces neither an entry nor an error.
C21_KeysAreChainsWithFile ==
  /\ \A i \in 1..Len(mAddrs) :
       (mPc \in {"loop", "done"} /\ i < mA) =>
         DOMAIN mResult[mAddrs[i]] = KeysWithFile(mAddrs[i])
  /\ mPc = "done" =>
       \A a \in DOMAIN outFile[1] : DOMAIN outFile[1][a] = KeysWithFile(a)
  /\ mPc = "threw" => \E f \in MappedFiles : FileRaises(f)

C21_Witness ==
  /\ mPc = "done"
  /\ \E a \in DOMAIN outFile[1] :
       /\ DebankFile(a, "xdai") \in DOMAIN fsFiles
       /\ fsFiles[DebankFile(a, "xdai")] \notin {Garbage}
       /\ normalizeDeBank(fsFiles[DebankFile(a, "xdai")]).threw
       /\ ZerionFile(a, "optimism") \in DOMAIN fsFiles
       /\ DOMAIN outFile[1][a] = {"optimism"}


(***************************************************************************)
(* Names that the alias table exchanges                                    *)
(***************************************************************************)
\* the pairs <<chain, X, Y>> whose table maps X to Y and Y to X
ExchangedNames ==
  {t \in UNION {{<<c, x, PROTOCOL_NAME_MAP[c][x]>> : x \in DOMAIN PROTOCOL_NAME_MAP[c]} :
                  c \in DOMAIN PROTOCOL_NAME_MAP} :
     /\ t[3] # t[2]
     /\ t[3] \in DOMAIN PROTOCOL_NAME_MAP[t[1]]
     /\ PROTOCOL_NAME_MAP[t[1]][t[3]] = t[2]}

\* the kept positions read so far whose protocol attribute is n
RECURSIVE NamedIn(_, _)
NamedIn(items, n) ==
  IF items = <<>> THEN <<>>
  ELSE (IF ProtocolOf(Head(items)) = Str(n) THEN <<Head(items)>> ELSE <<>>)
       \o NamedIn(Tail(items), n)

\* C22: alias resolution is one table lookup per position, never applied to
\* its own result: on a chain whose table maps X to Y and Y to X, the
\* positions named X are the content of bucket Y and the positions named Y
\* the content of bucket X; the two names are exchanged, not collapsed.
C22_AliasAppliedOnce ==
  zPc # "threw" =>
    \A t \in ExchangedNames :
      zChain = Str(t[1]) =>
        LET xs == NamedIn(ZKept, t[2])
        IN IF xs = <<>> THEN t[3] \notin DOMAIN zSnap.protocols
           ELSE /\ t[3] \in DOMAIN zSnap.protocols
                /\ Len(zSnap.protocols[t[3]].assets) = Len(xs)
                /\ zSnap.protocols[t[3]].value =
                     SumSeq([i \in 1..Len(xs) |-> ReportedValue(xs[i])])

C22_Witness ==
  /\ zPc = "done"
  /\ zChain = Str("optimism")
  /\ <<"optimism", "Velodrome", "Velodrome V2">> \in ExchangedNames
  /\ DOMAIN zSnap.protocols = {"Velodrome", "Velodrome V2"}
  /\ zSnap.protocols["Velodrome"].value = 6
  /\ zSnap.protocols["Velodrome V2"].value = -2
====
